---- MODULE Spec2Model ----
(***************************************************************************)
(* Model of Mcts_agent (src/mcts_agent.cpp): a one-level Monte Carlo tree  *)
(* search with UCT selection, random playouts, backpropagation, a          *)
(* wall-clock bounded iteration loop and an optional batch of worker       *)
(* threads per iteration.                                                  *)
(*                                                                         *)
(* The Board collaborator (get_valid_moves, make_move, check_winner, copy) *)
(* is not part of the repository source; it is modelled from section 6 of  *)
(* the specification as a one-row board of NumCells cells on which a       *)
(* player wins by owning two adjacent cells.  Such a board can be full     *)
(* without a winner, which is the stalemate case of the playout.           *)
(*                                                                         *)
(* Spec is a whole search, from the constructor to the returned move, with *)
(* each playout one step.  SpecPlayout is one playout round by round,      *)
(* SpecBatch the worker threads of one parallel batch with overlapping     *)
(* calls, SpecBackprop several backpropagate calls running at once.        *)
(***************************************************************************)
EXTENDS Integers, Sequences, FiniteSets, TLC

\* ------------------------------------------------------------------ bounds
NumCells == 4
MaxThreads == 2
MaxIter == 3
MaxClock == 1

\* -------------------------------------------------------------- vocabulary
Players == {"Blue", "Red"}
CellStates == {"Empty", "Blue", "Red"}
NullNode == 0
RootMove == <<-1, -1>>
\* fixed-point scale of the scores, and the exploration factors tried
\* (in thousandths: 0 and sqrt(2)), with the double value +infinity
Scale == 10000
InfiniteFactor == 1000000000
ExplorationFactors == {0, 1414, InfiniteFactor}
\* the time budgets tried, in clock units: none and some
DecisionTimes == {0, 1}
\* what dereferencing an element of an empty vector can do in a build:
\* a memory fault, or the abort of a checked standard library
UBCrashes == {"segfault", "assertion_abort"}

VARIABLES
  pc,                    \* position of the driver thread
  arg_is_parallelized,   \* constructor argument, FALSE once out of scope
  arg_is_verbose,        \* constructor argument, FALSE once out of scope
  exploration_factor,    \* member, in thousandths
  max_decision_time,     \* member, in clock units
  is_parallelized,       \* member
  is_verbose,            \* member
  board,                 \* choose_move argument
  player,                \* choose_move argument
  nodes,                 \* the heap of Node objects, by node id
  root,                  \* member root: a node id or NullNode
  number_of_threads,     \* local of choose_move
  mcts_iteration_counter,\* local of choose_move
  now,                   \* last reading of high_resolution_clock
  end_time,              \* local of choose_move
  chosen_child,          \* local of choose_move
  threads,               \* local of choose_move: number of threads in the vector
  results,               \* local of the parallel branch
  playouts,              \* the frames of simulate_random_playout, by slot
  bp,                    \* the frame of backpropagate
  best_child,            \* local of the deciding step
  outcome,               \* how construction / choose_move ended
  rollouts_executed,     \* history: playouts that returned a winner
  backprops              \* per thread: frame of a concurrent backpropagate call

vars == <<pc, arg_is_parallelized, arg_is_verbose, exploration_factor,
          max_decision_time, is_parallelized, is_verbose, board, player,
          nodes, root, number_of_threads, mcts_iteration_counter, now,
          end_time, chosen_child, threads, results, playouts, bp,
          best_child, outcome, rollouts_executed,
                 backprops>>

config_vars == <<arg_is_parallelized, arg_is_verbose, exploration_factor,
                 max_decision_time, is_parallelized, is_verbose, board, player>>

\* ------------------------------------------------------------------- Board
\* a playout that forgets to change sides
Opponent_NoFlip(p) == p

Opponent(p) == IF p = "Blue" THEN "Red" ELSE "Blue"

HasLine(b, p) == \E i \in 1..(Len(b) - 1) : b[i] = p /\ b[i + 1] = p

check_winner(b) ==
  IF HasLine(b, "Blue") THEN "Blue"
  ELSE IF HasLine(b, "Red") THEN "Red"
  ELSE "Empty"

AllCoordinates(b) == [i \in 1..Len(b) |-> <<0, i - 1>>]

IsEmptyCell(b, m) == b[m[2] + 1] = "Empty"

get_valid_moves(b) ==
  LET Keep(m) == IsEmptyCell(b, m)
  IN SelectSeq(AllCoordinates(b), Keep)

make_move(b, row, col, p) == [b EXCEPT ![col + 1] = p]

Boards == {b \in [1..NumCells -> CellStates] : check_winner(b) = "Empty"}

\* -------------------------------------------------------------------- Node
Node(p, move, parent_node) ==
  [win_count |-> 0, visit_count |-> 0, move |-> move, player |-> p,
   child_nodes |-> <<>>, parent_node |-> parent_node, node_mutex |-> 0]

\* children labelled with the other player, as a tree with alternating
\* levels would
ChildPlayer_Opponent(p) == Opponent(p)

\* line 140: a child carries the player of the node that is expanded
ChildPlayer(p) == p

\* expand_node: one child per valid move, in the board's order
RECURSIVE ExpandMoves(_, _, _)
ExpandMoves(ns, node, moves) ==
  IF moves = <<>> THEN ns
  ELSE LET new_child == Len(ns) + 1
           ns1 == Append(ns, Node(ChildPlayer(ns[node].player),
                                  Head(moves), node))
           ns2 == [ns1 EXCEPT ![node].child_nodes = Append(@, new_child)]
       IN ExpandMoves(ns2, node, Tail(moves))

\* a loop over the moves that stops one short
expand_node_DropsLast(ns, node, b) ==
  LET moves == get_valid_moves(b)
  IN ExpandMoves(ns, node, SubSeq(moves, 1, Len(moves) - 1))

expand_node(ns, node, b) == ExpandMoves(ns, node, get_valid_moves(b))

\* ------------------------------------------------------------- UCT scoring
\* natural logarithm times Scale, rounded
LnScaled(n) ==
  <<0, 6931, 10986, 13863, 16094, 17918, 19459, 20794, 21972, 23026,
    23979, 24849, 25649, 26391, 27081, 27726>>[n]

RECURSIVE SqrtSearch(_, _, _)
SqrtSearch(x, lo, hi) ==
  IF lo >= hi THEN lo
  ELSE LET mid == (lo + hi + 1) \div 2
       IN IF mid * mid <= x THEN SqrtSearch(x, mid, hi)
          ELSE SqrtSearch(x, lo, mid - 1)

\* floor of the square root
ISqrt(x) == SqrtSearch(x, 0, 46340)

\* std::numeric_limits<double>::max(), above every finite score of the
\* model; the doubles +infinity, above it, and NaN
DoubleMax == 2000000000
InfiniteScore == 2000000001
NaNScore == -1

\* a scan that replaces the best child on an equal score
ScoreGreater_OrEqual(a, b) == a # NaNScore /\ b # NaNScore /\ a >= b

\* operator > of two doubles: false when either is NaN
ScoreGreater(a, b) == a # NaNScore /\ b # NaNScore /\ a > b

\* an unvisited child scored as 0
calculate_uct_score_UnvisitedZero(ns, child_node, parent_node) ==
  IF ns[child_node].visit_count = 0 THEN 0
  ELSE (ns[child_node].win_count * Scale) \div ns[child_node].visit_count
       + (exploration_factor
            * ISqrt((LnScaled(ns[parent_node].visit_count) * Scale)
                      \div ns[child_node].visit_count)) \div 1000

\* lines 150-156.  log(0) is -infinity and its square root NaN; infinity
\* times the square root is NaN when the logarithm is 0 (one parent visit)
\* and +infinity otherwise.
calculate_uct_score(ns, child_node, parent_node) ==
  IF ns[child_node].visit_count = 0 THEN DoubleMax
  ELSE IF ns[parent_node].visit_count = 0 THEN NaNScore
  ELSE IF exploration_factor = InfiniteFactor
  THEN IF LnScaled(ns[parent_node].visit_count) = 0
       THEN NaNScore ELSE InfiniteScore
  ELSE (ns[child_node].win_count * Scale) \div ns[child_node].visit_count
       + (exploration_factor
            * ISqrt((LnScaled(ns[parent_node].visit_count) * Scale)
                      \div ns[child_node].visit_count)) \div 1000

\* the scan of select_child over children 2..n, best so far in (best, score)
RECURSIVE SelectScan(_, _, _, _, _)
SelectScan(ns, parent_node, i, best, max_score) ==
  IF i > Len(ns[parent_node].child_nodes) THEN best
  ELSE LET child == ns[parent_node].child_nodes[i]
           uct_score == calculate_uct_score(ns, child, parent_node)
       IN IF ScoreGreater(uct_score, max_score)
          THEN SelectScan(ns, parent_node, i + 1, child, uct_score)
          ELSE SelectScan(ns, parent_node, i + 1, best, max_score)

\* select_child of a parent that has at least one child
select_child(ns, parent_node) ==
  LET first == ns[parent_node].child_nodes[1]
  IN SelectScan(ns, parent_node, 2, first,
                calculate_uct_score(ns, first, parent_node))

\* ------------------------------------------------------- deciding step
\* static_cast<double>(win_count) / visit_count: 0.0/0 is NaN, which
\* compares false with everything; ratios are kept as fractions
IsNaN(r) == r.den = 0 /\ r.num = 0

\* a division guarded by "no visits means ratio 0"
RatioGreater_UnvisitedAsZero(a, b) ==
  LET x == IF a.den = 0 THEN [num |-> 0, den |-> 1] ELSE a
      y == IF b.den = 0 THEN [num |-> 0, den |-> 1] ELSE b
  IN x.num * y.den > y.num * x.den

\* a scan that replaces the best child on an equal ratio
RatioGreater_OrEqual(a, b) ==
  IF IsNaN(a) \/ IsNaN(b) THEN FALSE
  ELSE IF a.den = 0 THEN TRUE
  ELSE IF b.den = 0 THEN FALSE
  ELSE a.num * b.den >= b.num * a.den

RatioGreater(a, b) ==
  IF IsNaN(a) \/ IsNaN(b) THEN FALSE
  ELSE IF a.den = 0 THEN b.den # 0
  ELSE IF b.den = 0 THEN FALSE
  ELSE a.num * b.den > b.num * a.den

win_ratio(ns, child) ==
  [num |-> ns[child].win_count, den |-> ns[child].visit_count]

\* the scan of lines 98-121: best child so far, NullNode while there is none
RECURSIVE BestScan(_, _, _, _)
BestScan(ns, i, best, max_win_ratio) ==
  IF i > Len(ns[root].child_nodes) THEN best
  ELSE LET child == ns[root].child_nodes[i]
       IN IF RatioGreater(win_ratio(ns, child), max_win_ratio)
          THEN BestScan(ns, i + 1, child, win_ratio(ns, child))
          ELSE BestScan(ns, i + 1, best, max_win_ratio)

BestChild(ns) == BestScan(ns, 1, NullNode, [num |-> -1, den |-> 1])

\* ------------------------------------------------------------- frames
IdlePlayout ==
  [status |-> "idle", board |-> <<>>, current_player |-> "Empty",
   trace |-> <<>>, ret |-> "Empty"]

NoBackprop ==
  [current_node |-> NullNode, winner |-> "Empty", from |-> NullNode,
   index |-> 0, before |-> <<>>, updated |-> <<>>]

NoOutcome == [kind |-> "none", move |-> RootMove]

\* no backpropagate call of the thread is under way
NoWalk ==
  [at |-> "idle", current_node |-> NullNode, winner |-> "Empty",
   from |-> NullNode, loaded |-> 0]

Slots == 1..MaxThreads

\* ---------------------------------------------------------------- Init
Init ==
  /\ pc = "new"
  /\ arg_is_parallelized \in BOOLEAN
  /\ arg_is_verbose \in BOOLEAN
  /\ exploration_factor \in ExplorationFactors
  /\ max_decision_time \in DecisionTimes
  /\ is_parallelized = FALSE
  /\ is_verbose = FALSE
  /\ board \in Boards
  /\ player \in Players
  /\ nodes = <<>>
  /\ root = NullNode
  /\ number_of_threads = 0
  /\ mcts_iteration_counter = 0
  /\ now = 0
  /\ end_time = 0
  /\ chosen_child = NullNode
  /\ threads = 0
  /\ results = <<>>
  /\ playouts = [t \in Slots |-> IdlePlayout]
  /\ bp = NoBackprop
  /\ best_child = NullNode
  /\ outcome = NoOutcome
  /\ rollouts_executed = 0
  /\ backprops = [t \in Slots |-> NoWalk]

\* --------------------------------------------------------- constructor
\* The member initialiser list sets exploration_factor, max_decision_time,
\* is_verbose and random_generator.  The member is_parallelized is not in
\* the list and is not assigned in the body: what choose_move reads later
\* is whatever the object holds, which does not depend on the argument.
ConstructedParallelFlag(argument) == BOOLEAN

Construct ==
  /\ pc = "new"
  /\ IF arg_is_parallelized /\ arg_is_verbose
     THEN /\ pc' = "rejected"
          /\ outcome' = [kind |-> "logic_error", move |-> RootMove]
          /\ UNCHANGED <<is_parallelized, is_verbose>>
     ELSE /\ pc' = "idle"
          /\ is_verbose' = arg_is_verbose
          /\ is_parallelized' \in ConstructedParallelFlag(arg_is_parallelized)
          /\ UNCHANGED outcome
  /\ arg_is_parallelized' = FALSE
  /\ arg_is_verbose' = FALSE
  /\ UNCHANGED <<exploration_factor, max_decision_time, board, player,
                 nodes, root, number_of_threads, mcts_iteration_counter,
                 now, end_time, chosen_child, threads, results, playouts,
                 bp, best_child, rollouts_executed,
                 backprops>>

\* ---------------------------------------------------------- choose_move
\* lines 33-46: the root, hardware_concurrency, expand_node, the deadline
ChooseMoveBegin ==
  /\ pc = "idle"
  /\ LET fresh == <<Node(player, RootMove, NullNode)>>
     IN nodes' = expand_node(fresh, 1, board)
  /\ root' = 1
  /\ IF is_parallelized
     THEN number_of_threads' \in 0..MaxThreads
     ELSE number_of_threads' = 0
  /\ mcts_iteration_counter' = 0
  /\ end_time' = now + max_decision_time
  /\ pc' = "loop"
  /\ UNCHANGED <<config_vars, now, chosen_child, threads, results, playouts,
                 bp, best_child, outcome, rollouts_executed,
                 backprops>>

\* line 47: a reading of the clock, never earlier than the last one
LoopCheck ==
  /\ pc = "loop"
  /\ \E t \in now..MaxClock :
       /\ now' = t
       /\ IF t < end_time
          THEN /\ mcts_iteration_counter < MaxIter
               /\ pc' = "select"
          ELSE pc' = "deciding"
  /\ UNCHANGED <<config_vars, nodes, root, number_of_threads,
                 mcts_iteration_counter, end_time, chosen_child, threads,
                 results, playouts, bp, best_child, outcome,
                 rollouts_executed,
                 backprops>>

\* line 53.  child_nodes[0] of an empty vector is undefined behaviour.
SelectChild ==
  /\ pc = "select"
  /\ IF nodes[root].child_nodes = <<>>
     THEN /\ \E crash \in UBCrashes :
               outcome' = [kind |-> crash, move |-> RootMove]
          /\ pc' = "crashed"
          /\ UNCHANGED <<chosen_child, results>>
     ELSE /\ chosen_child' = select_child(nodes, root)
          /\ pc' = IF is_parallelized THEN "spawn" ELSE "simulate"
          /\ results' = IF is_parallelized
                        THEN [i \in 1..number_of_threads |-> "Empty"]
                        ELSE results
          /\ UNCHANGED outcome
  /\ UNCHANGED <<config_vars, nodes, root, number_of_threads,
                 mcts_iteration_counter, now, end_time, threads, playouts,
                 bp, best_child, rollouts_executed,
                 backprops>>

\* lines 56-60: one more worker thread is created
SpawnThread ==
  /\ pc = "spawn"
  /\ threads < number_of_threads
  /\ threads' = threads + 1
  /\ playouts' = [playouts EXCEPT ![threads + 1].status = "started"]
  /\ UNCHANGED <<pc, config_vars, nodes, root, number_of_threads,
                 mcts_iteration_counter, now, end_time, chosen_child,
                 results, bp, best_child, outcome, rollouts_executed,
                 backprops>>

\* ------------------------------------------- simulate_random_playout
\* lines 190-199: the board copy, the node's own move, the first test of
\* the loop condition
PlayoutEnter(node, b) ==
  LET current_player == node.player
      copy == make_move(b, node.move[1], node.move[2], current_player)
  IN [status |-> IF check_winner(copy) = "Empty" THEN "loop" ELSE "returned",
      board |-> copy,
      current_player |-> current_player,
      trace |-> <<[player |-> current_player, move |-> node.move]>>,
      ret |-> IF check_winner(copy) = "Empty" THEN "Empty"
              ELSE current_player]

\* lines 201-221: one round of the loop for one random draw, up to the next
\* test of the loop condition
PlayoutMove(frame, current_player, random_move) ==
  LET after == make_move(frame.board, random_move[1], random_move[2],
                         current_player)
  IN [status |-> IF check_winner(after) = "Empty" THEN "loop" ELSE "returned",
      board |-> after,
      current_player |-> current_player,
      trace |-> Append(frame.trace,
                       [player |-> current_player, move |-> random_move]),
      ret |-> IF check_winner(after) = "Empty" THEN "Empty"
              ELSE current_player]

\* lines 199-221: the frames one round of the loop can lead to.  With an
\* empty valid_moves, distribution(0, -1) and valid_moves[...] of an empty
\* vector are undefined behaviour: the frame is marked "undefined".
PlayoutRound(frame) ==
  LET current_player == Opponent(frame.current_player)
      valid_moves == get_valid_moves(frame.board)
  IN IF valid_moves = <<>>
     THEN {[frame EXCEPT !.status = "undefined",
                         !.current_player = current_player]}
     ELSE {PlayoutMove(frame, current_player, valid_moves[k]) :
             k \in 1..Len(valid_moves)}

\* lines 199-223: the frames in which a playout can leave its loop
RECURSIVE PlayoutRuns(_)
PlayoutRuns(frame) ==
  IF frame.status # "loop" THEN {frame}
  ELSE UNION {PlayoutRuns(next) : next \in PlayoutRound(frame)}

\* line 223: the locals are gone, the caller holds the returned player
PlayoutLeave(frame) ==
  [status |-> frame.status, board |-> <<>>, current_player |-> "Empty",
   trace |-> <<>>, ret |-> frame.ret]

\* a playout runs on the driver thread (slot 1, line 70) or on the worker
\* thread of its slot (line 58)
CanRun(t) ==
  \/ pc = "simulate" /\ t = 1 /\ playouts[t].status = "idle"
  \/ pc = "spawn" /\ t <= threads /\ playouts[t].status = "started"

\* line 58: the lambda stores the returned player in its own slot
StoreResult(t, winner) ==
  IF pc = "spawn" THEN [results EXCEPT ![t] = winner] ELSE results

\* one call of simulate_random_playout, from entry to return.  A call that
\* runs into the undefined behaviour of the empty move set takes the process
\* down (a fault or an abort) or never comes back (it reads a coordinate
\* that is no cell of the board and goes round the loop for ever).
Playout(t) ==
  /\ CanRun(t)
  /\ \E final \in PlayoutRuns(PlayoutEnter(nodes[chosen_child], board)) :
       IF final.status = "returned"
       THEN /\ playouts' = [playouts EXCEPT ![t] = PlayoutLeave(final)]
            /\ results' = StoreResult(t, final.ret)
            /\ rollouts_executed' = rollouts_executed + 1
            /\ UNCHANGED <<pc, outcome>>
       ELSE /\ \/ /\ \E crash \in UBCrashes :
                       outcome' = [kind |-> crash, move |-> RootMove]
                  /\ pc' = "crashed"
               \/ UNCHANGED <<pc, outcome>>
            /\ playouts' = [playouts EXCEPT ![t] = PlayoutLeave(final)]
            /\ UNCHANGED <<results, rollouts_executed>>
  /\ UNCHANGED <<config_vars, nodes, root, number_of_threads,
                 mcts_iteration_counter, now, end_time, chosen_child,
                 threads, bp, best_child, backprops>>

\* threads that are detached instead of joined
AllJoined_Detached == TRUE

\* line 62: join() returns once the thread has finished
AllJoined == \A t \in 1..threads : playouts[t].status = "returned"

\* lines 61-64: every thread of the vector is joined, the vector cleared
JoinThreads ==
  /\ pc = "spawn"
  /\ threads = number_of_threads
  /\ AllJoined
  /\ threads' = 0
  /\ pc' = "results"
  /\ bp' = NoBackprop
  /\ UNCHANGED <<config_vars, nodes, root, number_of_threads,
                 mcts_iteration_counter, now, end_time, chosen_child,
                 results, playouts, best_child, outcome, rollouts_executed,
                 backprops>>

\* -------------------------------------------------------- backpropagate
\* line 230
BackpropFrame(node, winner, index) ==
  [current_node |-> node, winner |-> winner, from |-> node,
   index |-> index, before |-> nodes, updated |-> <<>>]

\* line 92 and the end of the loop body
EndIteration ==
  /\ mcts_iteration_counter' = mcts_iteration_counter + 1
  /\ playouts' = [t \in Slots |-> IdlePlayout]
  /\ results' = <<>>
  /\ bp' = NoBackprop
  /\ pc' = "loop"

\* lines 65-67: the next result is backpropagated, or the loop is left
NextResult ==
  /\ pc = "results"
  /\ IF bp.index < Len(results)
     THEN /\ bp' = BackpropFrame(chosen_child, results[bp.index + 1],
                                 bp.index + 1)
          /\ pc' = "backprop"
          /\ UNCHANGED <<mcts_iteration_counter, playouts, results>>
     ELSE EndIteration
  /\ UNCHANGED <<config_vars, nodes, root, number_of_threads, now, end_time,
                 chosen_child, threads, best_child, outcome,
                 rollouts_executed,
                 backprops>>

\* lines 70-71: the single playout has returned playout_winner
SerialBackprop ==
  /\ pc = "simulate"
  /\ playouts[1].status = "returned"
  /\ bp' = BackpropFrame(chosen_child, playouts[1].ret, 1)
  /\ pc' = "backprop"
  /\ UNCHANGED <<config_vars, nodes, root, number_of_threads,
                 mcts_iteration_counter, now, end_time, chosen_child,
                 threads, results, playouts, best_child, outcome,
                 rollouts_executed,
                 backprops>>

\* a win that is counted without its visit
BackpropUpdate_NoVisit(node, winner) ==
  IF winner = node.player
  THEN [node EXCEPT !.win_count = @ + 1]
  ELSE [node EXCEPT !.visit_count = @ + 1]

\* a credited node handed over to the other player, as in a tree whose
\* levels alternate
BackpropUpdate_FlipsPlayer(node, winner) ==
  [node EXCEPT !.visit_count = @ + 1,
               !.win_count = IF winner = node.player THEN @ + 1 ELSE @,
               !.player = Opponent(@)]

\* counters kept for the children only
BackpropUpdate_SkipsRoot(node, winner) ==
  IF node.parent_node = NullNode THEN node
  ELSE [node EXCEPT !.visit_count = @ + 1,
                    !.win_count = IF winner = node.player THEN @ + 1 ELSE @]

\* a win credited whoever won
BackpropUpdate_AlwaysWins(node, winner) ==
  [node EXCEPT !.visit_count = @ + 1, !.win_count = @ + 1]

\* lines 233-238: the counters of one node, under its lock
BackpropUpdate(node, winner) ==
  [node EXCEPT !.visit_count = @ + 1,
               !.win_count = IF winner = node.player THEN @ + 1 ELSE @]

\* a walk that stops below the root
BackpropNext_StopsAtChild(ns, current_node) == NullNode

\* line 245
BackpropNext(ns, current_node) == ns[current_node].parent_node

\* lines 231-246: one round of the loop
BackpropStep ==
  /\ pc = "backprop"
  /\ bp.current_node # NullNode
  /\ nodes' = [nodes EXCEPT ![bp.current_node] = BackpropUpdate(@, bp.winner)]
  /\ bp' = [bp EXCEPT !.current_node = BackpropNext(nodes, bp.current_node),
                      !.updated = Append(@, bp.current_node)]
  /\ UNCHANGED <<pc, config_vars, root, number_of_threads,
                 mcts_iteration_counter, now, end_time, chosen_child,
                 threads, results, playouts, best_child, outcome,
                 rollouts_executed,
                 backprops>>

\* line 231 with current_node == nullptr: back in choose_move
BackpropReturn ==
  /\ pc = "backprop"
  /\ bp.current_node = NullNode
  /\ IF is_parallelized
     THEN /\ pc' = "results"
          /\ UNCHANGED <<mcts_iteration_counter, playouts, results, bp>>
     ELSE EndIteration
  /\ UNCHANGED <<config_vars, nodes, root, number_of_threads, now, end_time,
                 chosen_child, threads, best_child, outcome,
                 rollouts_executed,
                 backprops>>

\* a return of the move of the wrong node
ReturnedMove_OfRoot(ns, best) == ns[root].move

\* line 131
ReturnedMove(ns, best) == ns[best].move

\* lines 98-131: the best child by win ratio, or the runtime_error
Decide ==
  /\ pc = "deciding"
  /\ best_child' = BestChild(nodes)
  /\ outcome' = IF best_child' = NullNode
                THEN [kind |-> "runtime_error_statistics", move |-> RootMove]
                ELSE [kind |-> "move",
                      move |-> ReturnedMove(nodes, best_child')]
  /\ pc' = "done"
  /\ UNCHANGED <<config_vars, nodes, root, number_of_threads,
                 mcts_iteration_counter, now, end_time, chosen_child,
                 threads, results, playouts, bp, rollouts_executed,
                 backprops>>

Next ==
  \/ Construct
  \/ ChooseMoveBegin
  \/ LoopCheck
  \/ SelectChild
  \/ SpawnThread
  \/ \E t \in Slots : Playout(t)
  \/ JoinThreads
  \/ NextResult
  \/ SerialBackprop
  \/ BackpropStep
  \/ BackpropReturn
  \/ Decide

Spec == Init /\ [][Next]_vars

\* ----------------------------------------- one playout, round by round
\* simulate_random_playout as a function of its arguments: any board
\* without a winner, any child of its root, the frame in slot 1
InitPlayout ==
  /\ pc = "simulate"
  /\ arg_is_parallelized = FALSE
  /\ arg_is_verbose = FALSE
  /\ exploration_factor = 1414
  /\ max_decision_time = 1
  /\ is_parallelized = FALSE
  /\ is_verbose = FALSE
  /\ board \in Boards
  /\ player \in Players
  /\ nodes = expand_node(<<Node(player, RootMove, NullNode)>>, 1, board)
  /\ root = 1
  /\ number_of_threads = 0
  /\ mcts_iteration_counter = 0
  /\ now = 0
  /\ end_time = max_decision_time
  /\ chosen_child \in {nodes[1].child_nodes[i] :
                         i \in 1..Len(nodes[1].child_nodes)}
  /\ threads = 0
  /\ results = <<>>
  /\ playouts = [t \in Slots |-> IdlePlayout]
  /\ bp = NoBackprop
  /\ best_child = NullNode
  /\ outcome = NoOutcome
  /\ rollouts_executed = 0
  /\ backprops = [t \in Slots |-> NoWalk]

playout_frame_vars == <<config_vars, nodes, root, number_of_threads,
                        mcts_iteration_counter, now, end_time, chosen_child,
                        threads, results, bp, best_child, rollouts_executed,
                 backprops>>

\* lines 190-199
PlayoutBegin ==
  /\ pc = "simulate"
  /\ playouts[1].status = "idle"
  /\ playouts' = [playouts EXCEPT
                    ![1] = PlayoutEnter(nodes[chosen_child], board)]
  /\ UNCHANGED <<pc, outcome, playout_frame_vars>>

\* lines 199-221, one round
PlayoutStep ==
  /\ pc = "simulate"
  /\ playouts[1].status = "loop"
  /\ \E next \in PlayoutRound(playouts[1]) :
       playouts' = [playouts EXCEPT ![1] = next]
  /\ UNCHANGED <<pc, outcome, playout_frame_vars>>

\* after the undefined behaviour: the fault or abort, or one more round on
\* the unchanged position
PlayoutUndefined ==
  /\ pc = "simulate"
  /\ playouts[1].status = "undefined"
  /\ \/ /\ \E crash \in UBCrashes :
             outcome' = [kind |-> crash, move |-> RootMove]
        /\ pc' = "crashed"
        /\ UNCHANGED playouts
     \/ /\ playouts' = [playouts EXCEPT ![1].current_player = Opponent(@)]
        /\ UNCHANGED <<pc, outcome>>
  /\ UNCHANGED playout_frame_vars

NextPlayout ==
  \/ PlayoutBegin
  \/ PlayoutStep
  \/ PlayoutUndefined

SpecPlayout == InitPlayout /\ [][NextPlayout]_vars

\* ------------------------------------------------------------------------
\* The worker threads of one parallel batch (lines 54-64), each call of
\* simulate_random_playout taken as an interval from its entry to its
\* return, so that calls of different threads overlap.
\* ------------------------------------------------------------------------

\* line 204: the evaluations of distribution(random_generator) in a call,
\* one per round of the loop, the round on the empty move set included
GeneratorCalls(final) ==
  Len(final.trace) - 1 + (IF final.status = "undefined" THEN 1 ELSE 0)

\* a call that is under way: the player it is going to return ("Empty" when
\* it runs into the empty move set) and the draws it makes on the way
PlayoutInFlight(final) ==
  [status |-> "running", board |-> <<>>, current_player |-> "Empty",
   trace |-> <<>>, ret |-> final.ret,
   generator_calls |-> GeneratorCalls(final)]

\* the objects outside its own frame a worker writes: its slot of results
\* (line 58) and, through this, the member random_generator (line 204),
\* whose state every draw advances
SharedWrites(t) ==
  {<<"results", t>>}
    \cup (IF playouts[t].generator_calls >= 1
          THEN {<<"random_generator", 0>>} ELSE {})

\* the objects outside its own frame a worker reads: the chosen child
\* (lines 192-193) and the caller's board, copied for the by-value
\* parameter (line 58)
SharedReads(t) == {<<"chosen_child", 0>>, <<"board", 0>>}

\* the state after the first select_child of a search in parallel mode
InitBatch ==
  /\ pc = "spawn"
  /\ arg_is_parallelized = FALSE
  /\ arg_is_verbose = FALSE
  /\ exploration_factor = 1414
  /\ max_decision_time = 1
  /\ is_parallelized = TRUE
  /\ is_verbose = FALSE
  /\ board \in {b \in Boards : get_valid_moves(b) # <<>>}
  /\ player \in Players
  /\ nodes = expand_node(<<Node(player, RootMove, NullNode)>>, 1, board)
  /\ root = 1
  /\ number_of_threads \in 1..MaxThreads
  /\ mcts_iteration_counter = 0
  /\ now = 0
  /\ end_time = max_decision_time
  /\ chosen_child = select_child(nodes, root)
  /\ threads = 0
  /\ results = [t \in 1..number_of_threads |-> "Empty"]
  /\ playouts = [t \in Slots |-> IdlePlayout]
  /\ bp = NoBackprop
  /\ best_child = NullNode
  /\ outcome = NoOutcome
  /\ rollouts_executed = 0
  /\ backprops = [t \in Slots |-> NoWalk]

\* line 58, lines 190-193: the thread's lambda enters the call
WorkerCall(t) ==
  /\ pc = "spawn"
  /\ t <= threads
  /\ playouts[t].status = "started"
  /\ \E final \in PlayoutRuns(PlayoutEnter(nodes[chosen_child], board)) :
       playouts' = [playouts EXCEPT ![t] = PlayoutInFlight(final)]
  /\ UNCHANGED <<pc, outcome, playout_frame_vars>>

\* lines 223, 58: the call returns and the lambda stores the player; a call
\* on the empty move set ends the process or stays in its loop
WorkerReturn(t) ==
  /\ pc = "spawn"
  /\ t <= threads
  /\ playouts[t].status = "running"
  /\ IF playouts[t].ret # "Empty"
     THEN /\ playouts' = [playouts EXCEPT
                            ![t] = [IdlePlayout EXCEPT
                                      !.status = "returned",
                                      !.ret = playouts[t].ret]]
          /\ results' = StoreResult(t, playouts[t].ret)
          /\ rollouts_executed' = rollouts_executed + 1
          /\ UNCHANGED <<pc, outcome>>
     ELSE /\ \E crash \in UBCrashes :
               outcome' = [kind |-> crash, move |-> RootMove]
          /\ pc' = "crashed"
          /\ UNCHANGED <<playouts, results, rollouts_executed>>
  /\ UNCHANGED <<config_vars, nodes, root, number_of_threads,
                 mcts_iteration_counter, now, end_time, chosen_child,
                 threads, bp, best_child, backprops>>

NextBatch ==
  \/ SpawnThread
  \/ \E t \in Slots : WorkerCall(t)
  \/ \E t \in Slots : WorkerReturn(t)
  \/ JoinThreads

SpecBatch == InitBatch /\ [][NextBatch]_vars

\* ------------------------------------------------------------------------
\* backpropagate (lines 228-247) called by several threads at once, each
\* call from a child of the same root.  A call goes through its loop one
\* statement at a time; "+= 1" is a load followed by a store.
\* ------------------------------------------------------------------------

\* a tree of a root with two children: the first board with two valid moves
BackpropBoard == CHOOSE b \in Boards : Len(get_valid_moves(b)) = 2

\* the threads that call backpropagate
Callers == {t \in Slots : backprops[t].at # "idle"}

\* a mutex that excludes nobody
MutexFree_NoExclusion(ns, node) == TRUE

\* line 233: lock_guard's constructor returns once no thread owns the mutex
MutexFree(ns, node) == ns[node].node_mutex = 0

InitBackprop ==
  /\ pc = "backprop"
  /\ arg_is_parallelized = FALSE
  /\ arg_is_verbose = FALSE
  /\ exploration_factor = 1414
  /\ max_decision_time = 1
  /\ is_parallelized = TRUE
  /\ is_verbose = FALSE
  /\ board = BackpropBoard
  /\ player \in Players
  /\ nodes = expand_node(<<Node(player, RootMove, NullNode)>>, 1, board)
  /\ root = 1
  /\ number_of_threads \in 1..MaxThreads
  /\ mcts_iteration_counter = 0
  /\ now = 0
  /\ end_time = max_decision_time
  /\ chosen_child = NullNode
  /\ threads = 0
  /\ results = <<>>
  /\ playouts = [t \in Slots |-> IdlePlayout]
  /\ bp = NoBackprop
  /\ best_child = NullNode
  /\ outcome = NoOutcome
  /\ rollouts_executed = 0
  /\ backprops \in
       {f \in [Slots ->
                 {NoWalk} \cup
                 {[at |-> "lock", current_node |-> n, winner |-> w,
                   from |-> n, loaded |-> 0] :
                    n \in {nodes[1].child_nodes[i] :
                             i \in 1..Len(nodes[1].child_nodes)},
                    w \in Players}] :
          \A t \in Slots : f[t].at # "idle" <=> t <= number_of_threads}

walk_frame_vars == <<pc, config_vars, root, number_of_threads,
                     mcts_iteration_counter, now, end_time, chosen_child,
                     threads, results, playouts, bp, best_child, outcome,
                     rollouts_executed>>

\* line 233: the lock of the current node is taken
WalkLock(t) ==
  /\ backprops[t].at = "lock"
  /\ MutexFree(nodes, backprops[t].current_node)
  /\ nodes' = [nodes EXCEPT ![backprops[t].current_node].node_mutex = t]
  /\ backprops' = [backprops EXCEPT ![t].at = "visit_load"]
  /\ UNCHANGED walk_frame_vars

\* line 234, the load of visit_count
WalkLoadVisit(t) ==
  /\ backprops[t].at = "visit_load"
  /\ backprops' = [backprops EXCEPT
                     ![t].loaded = nodes[backprops[t].current_node].visit_count,
                     ![t].at = "visit_store"]
  /\ UNCHANGED <<nodes, walk_frame_vars>>

\* lines 234-235: the store of visit_count, the test of the winner
WalkStoreVisit(t) ==
  /\ backprops[t].at = "visit_store"
  /\ nodes' = [nodes EXCEPT ![backprops[t].current_node].visit_count =
                               backprops[t].loaded + 1]
  /\ backprops' = [backprops EXCEPT
                     ![t].at =
                       IF backprops[t].winner
                            = nodes[backprops[t].current_node].player
                       THEN "win_load" ELSE "unlock"]
  /\ UNCHANGED walk_frame_vars

\* line 237, the load of win_count
WalkLoadWin(t) ==
  /\ backprops[t].at = "win_load"
  /\ backprops' = [backprops EXCEPT
                     ![t].loaded = nodes[backprops[t].current_node].win_count,
                     ![t].at = "win_store"]
  /\ UNCHANGED <<nodes, walk_frame_vars>>

\* line 237, the store of win_count
WalkStoreWin(t) ==
  /\ backprops[t].at = "win_store"
  /\ nodes' = [nodes EXCEPT ![backprops[t].current_node].win_count =
                               backprops[t].loaded + 1]
  /\ backprops' = [backprops EXCEPT ![t].at = "unlock"]
  /\ UNCHANGED walk_frame_vars

\* lines 245-246, 231: current_node moves to the parent, the lock_guard
\* goes out of scope, the loop condition is tested
WalkUnlock(t) ==
  /\ backprops[t].at = "unlock"
  /\ nodes' = [nodes EXCEPT ![backprops[t].current_node].node_mutex = 0]
  /\ backprops' = [backprops EXCEPT
                     ![t].current_node =
                       BackpropNext(nodes, backprops[t].current_node),
                     ![t].at =
                       IF BackpropNext(nodes, backprops[t].current_node)
                            = NullNode
                       THEN "done" ELSE "lock"]
  /\ UNCHANGED walk_frame_vars

NextBackprop ==
  \E t \in Slots :
    \/ WalkLock(t)
    \/ WalkLoadVisit(t)
    \/ WalkStoreVisit(t)
    \/ WalkLoadWin(t)
    \/ WalkStoreWin(t)
    \/ WalkUnlock(t)

SpecBackprop == InitBackprop /\ [][NextBackprop]_vars

\* ================================================================ claims
NodeIds == 1..Len(nodes)
Children == IF root = NullNode THEN <<>> ELSE nodes[root].child_nodes
ChildIds == {Children[i] : i \in 1..Len(Children)}
Visited(n) == nodes[n].visit_count > 0
RootMoves == get_valid_moves(board)

\* C1: every node of the tree has 0 <= win_count <= visit_count, in every
\* reachable state, in both modes
C1_CountersOrdered ==
  \A n \in NodeIds :
    /\ 0 <= nodes[n].win_count
    /\ nodes[n].win_count <= nodes[n].visit_count

C1_Witness ==
  /\ is_parallelized
  /\ root # NullNode
  /\ nodes[root].win_count >= 1
  /\ nodes[root].win_count < nodes[root].visit_count
  /\ \E c \in ChildIds :
       nodes[c].win_count >= 1 /\ nodes[c].win_count < nodes[c].visit_count

\* C2: with zero legal moves at the root, choose_move ends with a
\* no-legal-moves error (not with a move, not with the statistics error),
\* whether the loop ran or not
C2_NoLegalMovesError ==
  (pc \in {"done", "crashed"} /\ RootMoves = <<>>)
    => outcome.kind = "no_legal_moves_error"

\* C3: a returned move is the move of a visited child of the root, never
\* the sentinel; when the loop ends with no visited child, choose_move
\* fails with the statistics error
C3_ReturnsVisitedChildOrFails ==
  /\ outcome.kind = "move" =>
       /\ pc = "done"
       /\ best_child \in ChildIds
       /\ Visited(best_child)
       /\ outcome.move = nodes[best_child].move
       /\ outcome.move # RootMove
  /\ pc = "done" =>
       IF \E c \in ChildIds : Visited(c)
       THEN outcome.kind = "move"
       ELSE outcome.kind = "runtime_error_statistics"

C3_Witness ==
  /\ pc = "done"
  /\ outcome.kind = "move"
  /\ \E c \in ChildIds : ~ Visited(c)
  /\ nodes[best_child].win_count = 0

\* C4: the returned move is that of the visited child with the greatest
\* win_count / visit_count, the earliest one among equals
C4_FirstGreatestRatio ==
  (pc = "done" /\ outcome.kind = "move") =>
    \E i \in 1..Len(Children) :
      LET b == nodes[Children[i]]
      IN /\ Children[i] = best_child
         /\ outcome.move = b.move
         /\ b.visit_count > 0
         /\ \A j \in 1..Len(Children) :
              LET c == nodes[Children[j]]
              IN c.visit_count > 0 =>
                   /\ c.win_count * b.visit_count <= b.win_count * c.visit_count
                   /\ j < i =>
                        c.win_count * b.visit_count < b.win_count * c.visit_count

C4_Witness ==
  /\ pc = "done"
  /\ outcome.kind = "move"
  /\ \E i, j \in 1..Len(Children) :
       /\ 1 < i
       /\ i < j
       /\ Children[i] = best_child
       /\ Visited(Children[j])
       /\ nodes[Children[j]].win_count * nodes[best_child].visit_count
            = nodes[best_child].win_count * nodes[Children[j]].visit_count

\* C5: when the iteration loop has ended, root.visit_count is the number of
\* rollouts executed: the iterations, times number_of_threads in parallel mode
C5_RootVisitsAreRollouts ==
  pc \in {"deciding", "done"} =>
    /\ nodes[root].visit_count = rollouts_executed
    /\ rollouts_executed =
         mcts_iteration_counter
           * (IF is_parallelized THEN number_of_threads ELSE 1)

C5_Witness ==
  /\ pc = "deciding"
  /\ is_parallelized
  /\ number_of_threads >= 2
  /\ mcts_iteration_counter >= 2

\* C6: the mode choose_move runs in is the one given at construction: the
\* flag the agent holds when the constructor returns is the flag passed in
C6_ModeGivenAtConstruction ==
  [][(pc = "new" /\ pc' = "idle") => is_parallelized' = arg_is_parallelized]_vars

\* C7 as stated: with exactly one legal move and a non-zero time budget,
\* choose_move returns that move
C7_SingleMoveReturned ==
  (pc = "done" /\ Len(RootMoves) = 1 /\ max_decision_time > 0)
    => outcome = [kind |-> "move", move |-> RootMoves[1]]

\* C7 as amended: with exactly one legal move, choose_move returns that move
\* when the loop ends after at least one backpropagated rollout, and fails
\* with the statistics error when it ends with none
C7_SingleMoveReturnedOnceVisited ==
  (pc = "done" /\ Len(RootMoves) = 1) =>
    IF nodes[root].visit_count > 0
    THEN outcome = [kind |-> "move", move |-> RootMoves[1]]
    ELSE outcome.kind = "runtime_error_statistics"

C7_Witness ==
  /\ pc = "done"
  /\ Len(RootMoves) = 1
  /\ is_parallelized
  /\ max_decision_time > 0
  /\ nodes[root].visit_count >= 2
  /\ outcome = [kind |-> "move", move |-> RootMoves[1]]

\* the board after the first k moves of a playout's trace
RECURSIVE Replay(_, _, _)
Replay(b, trace, k) ==
  IF k = 0 THEN b
  ELSE LET before == Replay(b, trace, k - 1)
       IN [before EXCEPT ![trace[k].move[2] + 1] = trace[k].player]

\* C8: a playout applies the node's move for the node's player, then one
\* legal move per step for strictly alternating players (the opponent
\* first), stops at the first position with a winner and returns the
\* player of the last applied move; a winning first move ends it at once
C8_PlayoutAlternatesAndReturnsLastMover ==
  LET frame == playouts[1]
      trace == frame.trace
      n == Len(trace)
      node == nodes[chosen_child]
  IN frame.status \in {"loop", "returned"} =>
       /\ n >= 1
       /\ trace[1] = [player |-> node.player, move |-> node.move]
       /\ \A k \in 2..n :
            /\ trace[k].player \in Players
            /\ trace[k].player # trace[k - 1].player
            /\ Replay(board, trace, k - 1)[trace[k].move[2] + 1] = "Empty"
       /\ \A k \in 1..(n - 1) :
            check_winner(Replay(board, trace, k)) = "Empty"
       /\ frame.board = Replay(board, trace, n)
       /\ frame.current_player = trace[n].player
       /\ frame.status = "loop" => check_winner(frame.board) = "Empty"
       /\ frame.status = "returned" =>
            /\ check_winner(frame.board) # "Empty"
            /\ frame.ret = trace[n].player
       /\ check_winner(Replay(board, trace, 1)) # "Empty" =>
            /\ frame.status = "returned"
            /\ n = 1
            /\ frame.ret = node.player

C8_Witness ==
  /\ playouts[1].status = "returned"
  /\ Len(playouts[1].trace) >= 3
  /\ playouts[1].ret = nodes[chosen_child].player

\* C9: a playout that has gone through its loop body on a position with no
\* legal move and no winner has reported a failure of its own
C9_StalemateReported ==
  LET frame == playouts[1]
  IN (/\ frame.status \notin {"idle", "loop"}
      /\ get_valid_moves(frame.board) = <<>>
      /\ check_winner(frame.board) = "Empty")
       => /\ frame.status = "failed"
          /\ pc # "crashed"

\* what one backpropagation does to a node it passes
C10_Credited(node, winner) ==
  [node EXCEPT !.visit_count = node.visit_count + 1,
               !.win_count = node.win_count
                               + (IF winner = node.player THEN 1 ELSE 0)]

\* C10: a backpropagation from a child of the root adds one visit to the
\* child and then to the root, adds one win to each of the two exactly when
\* the winner is that node's player, and changes no other node
C10_BackpropUpdatesChildThenRoot ==
  pc = "backprop" =>
    /\ bp.from \in ChildIds
    /\ bp.updated \in {<<>>, <<bp.from>>, <<bp.from, root>>}
    /\ bp.current_node = (<<bp.from, root, NullNode>>)[Len(bp.updated) + 1]
    /\ Len(nodes) = Len(bp.before)
    /\ \A n \in NodeIds :
         nodes[n] = IF \E k \in 1..Len(bp.updated) : bp.updated[k] = n
                    THEN C10_Credited(bp.before[n], bp.winner)
                    ELSE bp.before[n]

C10_Witness ==
  /\ pc = "backprop"
  /\ bp.current_node = NullNode
  /\ Len(Children) >= 3
  /\ bp.from = Children[2]
  /\ bp.winner # nodes[root].player
  /\ nodes[Children[1]].win_count >= 1

\* C11: once expand_node has run on the root, the moves of the root's
\* children are, position by position, the board's valid moves, there is no
\* other node, every child has the root's player and the root as parent,
\* and right after the expansion every child's counters are 0
C11_ChildrenAreValidMoves ==
  pc \in {"loop", "select", "simulate", "spawn", "results", "backprop",
          "deciding", "done"} =>
    /\ Len(Children) = Len(RootMoves)
    /\ Len(nodes) = 1 + Len(RootMoves)
    /\ \A i \in 1..Len(Children) :
         /\ Children[i] = root + i
         /\ nodes[Children[i]].move = RootMoves[i]
         /\ nodes[Children[i]].player = nodes[root].player
         /\ nodes[Children[i]].parent_node = root
         /\ (pc = "loop" /\ mcts_iteration_counter = 0 =>
               /\ nodes[Children[i]].visit_count = 0
               /\ nodes[Children[i]].win_count = 0)

C11_Witness ==
  /\ pc = "loop"
  /\ mcts_iteration_counter = 0
  /\ Len(Children) >= 3
  /\ nodes[root].player = "Red"

\* the first child of the root, in the children order, with visit_count 0
C12_LeftmostUnvisited ==
  Children[CHOOSE i \in 1..Len(Children) :
             /\ ~ Visited(Children[i])
             /\ \A j \in 1..(i - 1) : Visited(Children[j])]

\* C12 as stated: whatever the exploration factor and the winners, a
\* select_child call made while some child of the root has visit_count 0
\* returns the leftmost such child, and the first selections of a search
\* go through the children one by one, none of them twice
C12_UnvisitedFirst ==
  pc \in {"simulate", "spawn"} =>
    /\ (\E n \in ChildIds : ~ Visited(n)) =>
         chosen_child = C12_LeftmostUnvisited
    /\ mcts_iteration_counter < Len(Children) =>
         chosen_child = Children[mcts_iteration_counter + 1]

\* C12 as amended: with a finite exploration factor that lets no score
\* overflow, a select_child call made while some child of the root has
\* visit_count 0 returns the leftmost such child; when every selection is
\* followed by at least one backpropagated rollout, the first selections of
\* a search go through the children one by one, none of them twice
C12_UnvisitedFirstFiniteScores ==
  pc \in {"simulate", "spawn"} /\ exploration_factor # InfiniteFactor =>
    /\ (\E n \in ChildIds : ~ Visited(n)) =>
         chosen_child = C12_LeftmostUnvisited
    /\ (pc = "simulate" \/ number_of_threads >= 1)
         /\ mcts_iteration_counter < Len(Children) =>
           chosen_child = Children[mcts_iteration_counter + 1]

C12_Witness ==
  /\ pc \in {"simulate", "spawn"}
  /\ exploration_factor = 1414
  /\ Len(Children) >= 3
  /\ mcts_iteration_counter = 2
  /\ chosen_child = Children[3]
  /\ nodes[Children[1]].win_count # nodes[Children[2]].win_count

\* C13: with exploration_factor = 0 and every child of the root visited,
\* select_child returns a child whose win_count / visit_count no other
\* child exceeds, and every child before it in the children order has a
\* strictly smaller ratio
C13_GreedyFirstBestRatio ==
  /\ pc \in {"simulate", "spawn"}
  /\ exploration_factor = 0
  /\ \A n \in ChildIds : Visited(n)
  => /\ chosen_child \in ChildIds
     /\ \A i \in 1..Len(Children) :
          LET c == nodes[Children[i]]
              b == nodes[chosen_child]
          IN /\ c.win_count * b.visit_count <= b.win_count * c.visit_count
             /\ Children[i] < chosen_child =>
                  c.win_count * b.visit_count < b.win_count * c.visit_count

C13_Witness ==
  /\ pc \in {"simulate", "spawn"}
  /\ exploration_factor = 0
  /\ Len(Children) = 2
  /\ \A n \in ChildIds : Visited(n)
  /\ chosen_child = Children[2]
  /\ nodes[Children[1]].win_count < nodes[Children[1]].visit_count

\* C14: the constructor fails with the configuration error exactly when
\* both the parallel flag and the verbose flag are given, and no agent on
\* which choose_move runs has both the parallel mode and the verbose mode
\* active
C14_NeverParallelAndVerbose ==
  [][/\ pc = "new" =>
          /\ pc' \in {"rejected", "idle"}
          /\ pc' = "rejected" <=> arg_is_parallelized /\ arg_is_verbose
          /\ pc' = "rejected" => outcome'.kind = "logic_error"
     /\ pc' \in {"loop", "select", "simulate", "spawn", "results",
                 "backprop", "deciding", "done"} =>
          ~ (is_parallelized' /\ is_verbose')]_vars

\* C15: no two rollouts of a batch that are under way at the same time
\* touch the same object outside their own frames unless both only read it
C15_WorkersShareNoWrittenState ==
  \A t1 \in Slots : \A t2 \in Slots :
    /\ t1 # t2
    /\ playouts[t1].status = "running"
    /\ playouts[t2].status = "running"
    => SharedWrites(t1) \cap (SharedWrites(t2) \cup SharedReads(t2)) = {}

\* C16: in parallel mode no worker thread is under way while results are
\* backpropagated; at each test of the loop condition, each select_child
\* call and the deciding step no thread of an earlier batch is left and
\* every result of every batch so far has been backpropagated; a batch that
\* is being spawned holds threads of this batch only
C16_BatchJoinedBeforeBackprop ==
  is_parallelized =>
    /\ pc \in {"results", "backprop"} =>
         /\ threads = 0
         /\ \A t \in 1..number_of_threads : playouts[t].status = "returned"
         /\ Len(results) = number_of_threads
         /\ \A t \in 1..number_of_threads : results[t] = playouts[t].ret
    /\ pc \in {"loop", "select", "deciding", "done"} =>
         /\ threads = 0
         /\ \A t \in Slots : playouts[t].status = "idle"
         /\ rollouts_executed = mcts_iteration_counter * number_of_threads
         /\ nodes[root].visit_count = rollouts_executed
    /\ pc = "spawn" =>
         /\ \A t \in Slots : t > threads => playouts[t].status = "idle"
         /\ nodes[root].visit_count
              = mcts_iteration_counter * number_of_threads

C16_Witness ==
  /\ is_parallelized
  /\ pc = "backprop"
  /\ number_of_threads = 2
  /\ mcts_iteration_counter = 1
  /\ bp.index = 2
  /\ results[1] # results[2]

\* C17: at every select_child call, for each child of the root with
\* visit_count > 0 (the children whose UCT formula is evaluated), the root's
\* visit_count is at least 1 and at least the child's visit_count
C17_ParentVisitedBeforeFormula ==
  pc \in {"select", "simulate", "spawn"} =>
    \A n \in ChildIds :
      Visited(n) =>
        /\ nodes[nodes[n].parent_node].visit_count >= 1
        /\ nodes[nodes[n].parent_node].visit_count >= nodes[n].visit_count

C17_Witness ==
  /\ pc = "select"
  /\ is_parallelized
  /\ Len(Children) >= 2
  /\ Visited(Children[2])
  /\ nodes[root].visit_count > nodes[Children[2]].visit_count
  /\ nodes[Children[2]].visit_count >= 2

\* C18: when backpropagate calls from children of one root run at the same
\* time on different threads, a thread owns at most one node lock at any
\* moment, some unfinished call can always take a step, and once all K
\* calls have returned the root's visit_count has grown by K, each child's
\* by the number of calls that started from it, and each node's win_count
\* by the number of those calls whose winner is the node's player
C18_ConcurrentBackpropLosesNothing ==
  pc = "backprop" /\ Callers # {} =>
    /\ \A t \in Callers :
         Cardinality({n \in NodeIds : nodes[n].node_mutex = t}) <= 1
    /\ (\E t \in Callers : backprops[t].at # "done") => ENABLED NextBackprop
    /\ (\A t \in Callers : backprops[t].at = "done") =>
         \A n \in NodeIds :
           LET through == {t \in Callers :
                             n = root \/ backprops[t].from = n}
           IN /\ nodes[n].visit_count = Cardinality(through)
              /\ nodes[n].win_count =
                   Cardinality({t \in through :
                                  backprops[t].winner = nodes[n].player})
              /\ nodes[n].node_mutex = 0

C18_Witness ==
  /\ pc = "backprop"
  /\ Cardinality(Callers) >= 2
  /\ \A t \in Callers : backprops[t].at = "done"
  /\ backprops[1].from # backprops[2].from
  /\ backprops[1].winner # backprops[2].winner
  /\ nodes[root].visit_count >= 2

\* the parts of a node that the search leaves alone
C19_Shape(node) ==
  [move |-> node.move, player |-> node.player,
   parent_node |-> node.parent_node, child_nodes |-> node.child_nodes]

\* C19: from the end of expand_node on, no step adds or removes a node or
\* changes a node's move, player, parent or children list, no child of the
\* root has children, and a step that changes a visit_count or a win_count
\* is a step of backpropagate
C19_TreeFixedAfterExpansion ==
  [][root # NullNode =>
       /\ root' = root
       /\ Len(nodes') = Len(nodes)
       /\ \A n \in NodeIds :
            /\ C19_Shape(nodes'[n]) = C19_Shape(nodes[n])
            /\ n # root => nodes[n].child_nodes = <<>>
            /\ (nodes'[n].visit_count # nodes[n].visit_count
                  \/ nodes'[n].win_count # nodes[n].win_count)
               => pc = "backprop" /\ pc' = "backprop"
                    /\ bp.current_node = n]_vars

C19_Witness ==
  /\ pc = "done"
  /\ outcome.kind = "move"
  /\ Len(Children) >= 3
  /\ nodes[Children[1]].win_count # nodes[Children[2]].win_count
  /\ nodes[Children[3]].visit_count >= 1

\* the sums of the counters of the first k children of the root
RECURSIVE C20_VisitSum(_)
C20_VisitSum(k) ==
  IF k = 0 THEN 0
  ELSE nodes[Children[k]].visit_count + C20_VisitSum(k - 1)

RECURSIVE C20_WinSum(_)
C20_WinSum(k) ==
  IF k = 0 THEN 0
  ELSE nodes[Children[k]].win_count + C20_WinSum(k - 1)

\* C20: at every test of the loop condition, every select_child call and
\* the deciding step, the root's visit_count is the sum of its children's
\* visit_count and the root's win_count the sum of its children's win_count
C20_RootCountersAreChildSums ==
  pc \in {"loop", "select", "simulate", "spawn", "deciding", "done"} =>
    /\ nodes[root].visit_count = C20_VisitSum(Len(Children))
    /\ nodes[root].win_count = C20_WinSum(Len(Children))

C20_Witness ==
  /\ pc = "deciding"
  /\ nodes[root].visit_count >= 3
  /\ nodes[root].win_count >= 1
  /\ nodes[root].win_count < nodes[root].visit_count
  /\ Cardinality({n \in ChildIds : Visited(n)}) >= 2
  /\ \E n \in ChildIds : nodes[n].win_count >= 1

====
